---- MODULE Spec2Model ----
(***************************************************************************)
(* Model of app/schemas/user_schemas.py: the field validators, the         *)
(* UserUpdate pre-pass and the role-transition policy.                     *)
(*                                                                         *)
(* Strings.  A Python str is modelled by its run-length encoding: a        *)
(* sequence of runs <<c, n>>, the character c repeated n >= 1 times, with  *)
(* adjacent runs holding different characters.  "aab" is                   *)
(* << <<"a", 2>>, <<"b", 1>> >> and "" is << >>.  Every string operation   *)
(* the code uses (len, lower, strip, in, startswith, endswith, re.match)   *)
(* is computed on this encoding, so that the code's own length limits      *)
(* (500, 255, 100, 30) are reached with short sequences.                   *)
(*                                                                         *)
(* Characters are one-character TLA+ strings; a character outside ASCII    *)
(* is named by its code point ("U+00C9" is LATIN CAPITAL LETTER E WITH     *)
(* ACUTE).                                                                 *)
(***************************************************************************)
EXTENDS Integers, Sequences, FiniteSets, TLC

VARIABLES
    op,       \* the operation applied last ("idle" before any)
    arg,      \* its input
    res,      \* its outcome: Ok(value) or Fail(message)
    first,    \* the outcome of the first validation, when op re-validates it
    role,     \* the persisted user's role (the update service's state)
    changes   \* how many role changes the service has committed

vars == <<op, arg, res, first, role, changes>>

----------------------------------------------------------------------------
(* Character classes, as Python's str methods and re classes decide them.  *)

AsciiUpper ==
    {"A","B","C","D","E","F","G","H","I","J","K","L","M",
     "N","O","P","Q","R","S","T","U","V","W","X","Y","Z"}

AsciiLower ==
    {"a","b","c","d","e","f","g","h","i","j","k","l","m",
     "n","o","p","q","r","s","t","u","v","w","x","y","z"}

AsciiDigit == {"0","1","2","3","4","5","6","7","8","9"}

AsciiLetter == AsciiUpper \cup AsciiLower

AsciiAlnum == AsciiLetter \cup AsciiDigit

\* Characters outside ASCII that the model's inputs use: an uppercase and a
\* lowercase letter, and a decimal digit (ARABIC-INDIC DIGIT THREE).
NonAsciiUpper == {"U+00C9"}

NonAsciiLower == {"U+00E9"}

NonAsciiDigit == {"U+0663"}

\* str.isupper / str.islower / str.isdigit / str.isalnum of one character:
\* Unicode-aware, not limited to ASCII.
IsUpper(c) == c \in AsciiUpper \cup NonAsciiUpper

IsLower(c) == c \in AsciiLower \cup NonAsciiLower

IsDigit(c) == c \in AsciiDigit \cup NonAsciiDigit

IsAlnum(c) == IsUpper(c) \/ IsLower(c) \/ IsDigit(c)

\* str.isspace, which str.strip() and the regex class \s both use.
Whitespace == {" ", "\t", "\n", "\r", "\f", "U+00A0"}

IsSpace(c) == c \in Whitespace

\* str.lower of one character.
LowerOf ==
    [c \in AsciiUpper \cup NonAsciiUpper |->
        CASE c = "A" -> "a" [] c = "B" -> "b" [] c = "C" -> "c" [] c = "D" -> "d"
          [] c = "E" -> "e" [] c = "F" -> "f" [] c = "G" -> "g" [] c = "H" -> "h"
          [] c = "I" -> "i" [] c = "J" -> "j" [] c = "K" -> "k" [] c = "L" -> "l"
          [] c = "M" -> "m" [] c = "N" -> "n" [] c = "O" -> "o" [] c = "P" -> "p"
          [] c = "Q" -> "q" [] c = "R" -> "r" [] c = "S" -> "s" [] c = "T" -> "t"
          [] c = "U" -> "u" [] c = "V" -> "v" [] c = "W" -> "w" [] c = "X" -> "x"
          [] c = "Y" -> "y" [] c = "Z" -> "z" [] c = "U+00C9" -> "U+00E9"]

LowerChar(c) == IF c \in DOMAIN LowerOf THEN LowerOf[c] ELSE c

----------------------------------------------------------------------------
(* Strings as run-length encodings.                                        *)

RECURSIVE StrLen(_)
\* len(s)
StrLen(s) == IF s = << >> THEN 0 ELSE s[1][2] + StrLen(Tail(s))

\* The characters that occur in s.
Chars(s) == {s[i][1] : i \in DOMAIN s}

\* a + b, merging the runs that meet when they hold the same character.
Concat(a, b) ==
    IF a = << >> THEN b
    ELSE IF b = << >> THEN a
    ELSE IF a[Len(a)][1] = b[1][1]
         THEN SubSeq(a, 1, Len(a) - 1)
              \o << <<b[1][1], a[Len(a)][2] + b[1][2]>> >>
              \o Tail(b)
         ELSE a \o b

RECURSIVE Lit(_)
\* The string spelled by the sequence of characters cs.
Lit(cs) ==
    IF cs = << >> THEN << >> ELSE Concat(<< <<cs[1], 1>> >>, Lit(Tail(cs)))

\* c * n
Rep(c, n) == IF n = 0 THEN << >> ELSE << <<c, n>> >>

RECURSIVE Lower(_)
\* s.lower()
Lower(s) ==
    IF s = << >> THEN << >>
    ELSE Concat(<< <<LowerChar(s[1][1]), s[1][2]>> >>, Lower(Tail(s)))

RECURSIVE LStrip(_)
\* s.lstrip()
LStrip(s) ==
    IF s = << >> THEN << >>
    ELSE IF IsSpace(s[1][1]) THEN LStrip(Tail(s)) ELSE s

RECURSIVE RStrip(_)
\* s.rstrip()
RStrip(s) ==
    IF s = << >> THEN << >>
    ELSE IF IsSpace(s[Len(s)][1])
         THEN RStrip(SubSeq(s, 1, Len(s) - 1))
         ELSE s

\* s.strip()
Strip(s) == RStrip(LStrip(s))

RECURSIVE TakeChars(_, _)
\* s[:k]
TakeChars(s, k) ==
    IF k <= 0 \/ s = << >> THEN << >>
    ELSE IF s[1][2] <= k
         THEN Concat(<< s[1] >>, TakeChars(Tail(s), k - s[1][2]))
         ELSE << <<s[1][1], k>> >>

RECURSIVE DropChars(_, _)
\* s[k:]
DropChars(s, k) ==
    IF k <= 0 \/ s = << >> THEN s
    ELSE IF s[1][2] <= k
         THEN DropChars(Tail(s), k - s[1][2])
         ELSE << <<s[1][1], s[1][2] - k>> >> \o Tail(s)

\* s.startswith(t), s.endswith(t), for a string t
StartsWith(s, t) == StrLen(t) <= StrLen(s) /\ TakeChars(s, StrLen(t)) = t

EndsWith(s, t) == StrLen(t) <= StrLen(s) /\ DropChars(s, StrLen(s) - StrLen(t)) = t

\* c + c in s, for a character c
HasDouble(s, c) ==
    \/ \E i \in DOMAIN s : s[i][1] = c /\ s[i][2] >= 2
    \/ \E i \in DOMAIN s : i + 1 \in DOMAIN s /\ s[i][1] = c /\ s[i + 1][1] = c

\* all(c in set for c in s)
AllIn(s, set) == Chars(s) \subseteq set

\* Python's "$" matches at the end of the string and also just before a
\* newline that ends the string: re.match(P + "$", s) succeeds when P matches
\* all of s, or all of s but its final "\n".
NL == Lit(<<"\n">>)

ChopNewline(s) == IF EndsWith(s, NL) THEN TakeChars(s, StrLen(s) - 1) ELSE s

----------------------------------------------------------------------------
(* Values.  A Python value that reaches a validator is None, a str or an   *)
(* int; an int is held by its decimal text.                                *)

NoneVal == [t |-> "none", s |-> << >>]

Str(s) == [t |-> "str", s |-> s]

IntVal(digits) == [t |-> "int", s |-> digits]

BoolVal(b) == [t |-> "bool", s |-> IF b THEN Lit(<<"1">>) ELSE << >>]

\* bool(v)
Truthy(v) ==
    CASE v.t = "none" -> FALSE
      [] v.t = "str"  -> v.s # << >>
      [] v.t = "int"  -> v.s # Lit(<<"0">>)

\* The two ways a validator ends: it returns a value or raises ValueError.
Ok(v) == [ok |-> TRUE, val |-> v, err |-> ""]

Fail(msg) == [ok |-> FALSE, val |-> NoneVal, err |-> msg]

Nothing == Fail("")

----------------------------------------------------------------------------
(* The role-transition policy.                                             *)

\* class UserRole
UserRole == {"ANONYMOUS", "AUTHENTICATED", "MANAGER", "ADMIN"}

\* The text of each role: UserRole is a str enumeration.
RoleText ==
    [r \in UserRole |->
        CASE r = "ANONYMOUS"     -> Lit(<<"A","N","O","N","Y","M","O","U","S">>)
          [] r = "AUTHENTICATED" -> Lit(<<"A","U","T","H","E","N","T","I","C","A","T","E","D">>)
          [] r = "MANAGER"       -> Lit(<<"M","A","N","A","G","E","R">>)
          [] r = "ADMIN"         -> Lit(<<"A","D","M","I","N">>)]

\* A value that is no member of UserRole, as a caller may still pass one.
RoleInputs == UserRole \cup {"GUEST"}

\* A slip of the table: ADMIN may step down to MANAGER.
role_hierarchy_demoting ==
    [r \in UserRole |->
        CASE r = "ANONYMOUS"     -> {"AUTHENTICATED"}
          [] r = "AUTHENTICATED" -> {"MANAGER"}
          [] r = "MANAGER"       -> {"ADMIN"}
          [] r = "ADMIN"         -> {"MANAGER"}]

\* The table of validate_role_transition: current role -> allowed next roles.
role_hierarchy ==
    [r \in UserRole |->
        CASE r = "ANONYMOUS"     -> {"AUTHENTICATED"}
          [] r = "AUTHENTICATED" -> {"MANAGER"}
          [] r = "MANAGER"       -> {"ADMIN"}
          [] r = "ADMIN"         -> {}]

\* new_role in role_hierarchy.get(current_role, [])
validate_role_transition(current_role, new_role) ==
    new_role \in (IF current_role \in DOMAIN role_hierarchy
                  THEN role_hierarchy[current_role]
                  ELSE {})

\* A caller evaluates the predicate; nothing is mutated.
CheckTransition ==
    \E cur \in RoleInputs, new \in RoleInputs :
        /\ op' = "validate_role_transition"
        /\ arg' = <<cur, new>>
        /\ res' = Ok(BoolVal(validate_role_transition(cur, new)))
        /\ UNCHANGED <<first, role, changes>>

\* The update service (app.services.user_service, not part of the sources):
\* it loads the persisted role, consults the policy, commits the requested
\* role when the policy allows it and refuses the update otherwise.
UpdateRole ==
    \E requested \in UserRole :
        LET allowed == validate_role_transition(role, requested) IN
        /\ op' = "update_role"
        /\ arg' = <<role, requested>>
        /\ res' = IF allowed THEN Ok(Str(RoleText[requested])) ELSE Fail("update refused")
        /\ role' = IF allowed THEN requested ELSE role
        /\ changes' = IF allowed THEN changes + 1 ELSE changes
        /\ UNCHANGED first

InitRole ==
    /\ op = "idle"
    /\ arg = NoneVal
    /\ res = Nothing
    /\ first = Nothing
    /\ role \in UserRole
    /\ changes = 0

NextRole == CheckTransition \/ UpdateRole

SpecRole == InitRole /\ [][NextRole]_vars

\* A promotion request: the service is asked for a role the policy allows
\* from the current one.
PromotionRequest == UpdateRole /\ role' # role

\* The service under promotion requests that keep being made.
SpecRolePromoted == SpecRole /\ WF_vars(PromotionRequest)

----------------------------------------------------------------------------
(* Inputs.  The strings of at most n runs over an alphabet, each run's     *)
(* length drawn from a set of lengths; adjacent runs hold different        *)
(* characters (the encoding of a string is unique).                        *)

RECURSIVE StringsUpTo(_, _, _)
StringsUpTo(alphabet, lengths, n) ==
    IF n = 0 THEN {<< >>}
    ELSE LET shorter == StringsUpTo(alphabet, lengths, n - 1)
             longer == {Append(p, <<c, k>>) :
                           p \in {q \in shorter : Len(q) = n - 1},
                           c \in alphabet, k \in lengths}
         IN shorter \cup
            {s \in longer : n = 1 \/ s[n][1] # s[n - 1][1]}

\* The longest run sequence the generated inputs have.
MaxRuns == 3

\* A validator is applied to one input, from the idle state.
Idle == op = "idle"

InitValidators ==
    /\ op = "idle"
    /\ arg = NoneVal
    /\ res = Nothing
    /\ first = Nothing
    /\ role = "AUTHENTICATED"
    /\ changes = 0

----------------------------------------------------------------------------
(* validate_password                                                        *)

PasswordMinLen == 8

PasswordMaxLen == 100

\* The characters of the literal "!@#$%^&*(),.?\":{}|<>"
SpecialChars ==
    {"!", "@", "#", "$", "%", "^", "&", "*", "(", ")", ",", ".", "?", "\"",
     ":", "{", "}", "|", "<", ">"}

\* any(pred(c) for c in password), for each of the four character rules
HasUpper(s) == \E c \in Chars(s) : IsUpper(c)

HasLower(s) == \E c \in Chars(s) : IsLower(c)

HasDigit(s) == \E c \in Chars(s) : IsDigit(c)

HasSpecial(s) == \E c \in Chars(s) : c \in SpecialChars

\* A slip of the upper length limit: ">=" for ">".
validate_password_off_by_one(password) ==
    IF StrLen(password) < PasswordMinLen
    THEN Fail("Password must be at least 8 characters long")
    ELSE IF StrLen(password) >= PasswordMaxLen
    THEN Fail("Password must be at most 100 characters long")
    ELSE IF ~HasUpper(password)
    THEN Fail("Password must contain at least one uppercase letter")
    ELSE IF ~HasLower(password)
    THEN Fail("Password must contain at least one lowercase letter")
    ELSE IF ~HasDigit(password)
    THEN Fail("Password must contain at least one number")
    ELSE IF ~HasSpecial(password)
    THEN Fail("Password must contain at least one special character")
    ELSE Ok(Str(password))

validate_password(password) ==
    IF StrLen(password) < PasswordMinLen
    THEN Fail("Password must be at least 8 characters long")
    ELSE IF StrLen(password) > PasswordMaxLen
    THEN Fail("Password must be at most 100 characters long")
    ELSE IF ~HasUpper(password)
    THEN Fail("Password must contain at least one uppercase letter")
    ELSE IF ~HasLower(password)
    THEN Fail("Password must contain at least one lowercase letter")
    ELSE IF ~HasDigit(password)
    THEN Fail("Password must contain at least one number")
    ELSE IF ~HasSpecial(password)
    THEN Fail("Password must contain at least one special character")
    ELSE Ok(Str(password))

\* The longest padding of a generated password.
PasswordPadMax == 101

\* Passwords: one optional character of each class (ASCII or not), then a
\* padding of 0..PasswordPadMax characters that belong to no class ("_") or
\* are lowercase letters ("a").
PasswordInputs ==
    {Concat(Lit(SelectSeq(<<u, l, d, x>>, LAMBDA c : c # "")), Rep(pad, n)) :
        u \in {"", "A", "U+00C9"}, l \in {"", "a", "U+00E9"},
        d \in {"", "1", "U+0663"}, x \in {"", "!", ">"},
        pad \in {"_", "a"}, n \in 0..PasswordPadMax}

ValidatePassword ==
    /\ Idle
    /\ \E password \in PasswordInputs :
        /\ op' = "validate_password"
        /\ arg' = Str(password)
        /\ res' = validate_password(password)
    /\ UNCHANGED <<first, role, changes>>

NextPassword == ValidatePassword

SpecPassword == InitValidators /\ [][NextPassword]_vars

----------------------------------------------------------------------------
(* UserBase.validate_nickname                                              *)

NicknameMinLen == 3

NicknameMaxLen == 30

\* The class [a-zA-Z0-9_-] of the nickname pattern.
NicknameChars == AsciiAlnum \cup {"_", "-"}

\* The pattern [a-zA-Z0-9][a-zA-Z0-9_-]* matches all of s.
NicknamePatternFull(s) ==
    /\ s # << >>
    /\ s[1][1] \in AsciiAlnum
    /\ AllIn(s, NicknameChars)

\* re.match(r'^[a-zA-Z0-9][a-zA-Z0-9_-]*$', s)
NicknamePattern(s) ==
    \/ NicknamePatternFull(s)
    \/ EndsWith(s, NL) /\ NicknamePatternFull(ChopNewline(s))

validate_nickname(v) ==
    IF v.t = "none" THEN Ok(v)
    ELSE IF StrLen(v.s) < NicknameMinLen
    THEN Fail("Nickname must be at least 3 characters long")
    ELSE IF StrLen(v.s) > NicknameMaxLen
    THEN Fail("Nickname must be at most 30 characters long")
    ELSE IF ~IsAlnum(v.s[1][1])
    THEN Fail("Nickname must start with a letter or number")
    ELSE IF HasDouble(v.s, "-") \/ HasDouble(v.s, "_")
    THEN Fail("Nickname cannot contain consecutive hyphens or underscores")
    ELSE IF ~NicknamePattern(v.s)
    THEN Fail("Nickname can only contain letters, numbers, underscores, and hyphens")
    ELSE Ok(v)

\* Nicknames: letters, a digit, the two separators, a letter outside ASCII,
\* a period and a newline, in runs whose lengths reach both length limits.
NicknameAlphabet == {"a", "1", "_", "-", "U+00E9", ".", "\n"}

NicknameRunLengths == {1, 2, 28}

NicknameInputs ==
    {NoneVal} \cup
    {Str(s) : s \in StringsUpTo(NicknameAlphabet, NicknameRunLengths, MaxRuns)}

ValidateNickname ==
    /\ Idle
    /\ \E v \in NicknameInputs :
        /\ op' = "validate_nickname"
        /\ arg' = v
        /\ res' = validate_nickname(v)
    /\ UNCHANGED <<first, role, changes>>

NextNickname == ValidateNickname

SpecNickname == InitValidators /\ [][NextNickname]_vars

----------------------------------------------------------------------------
(* validate_bio_length                                                     *)

BioMaxLen == 500

\* A slip of the normalization: only the leading whitespace is removed.
validate_bio_length_lstrip(bio) ==
    IF bio.t = "none" THEN Ok(bio)
    ELSE IF StrLen(bio.s) > BioMaxLen
    THEN Fail("Bio must be at most 500 characters long")
    ELSE Ok(Str(LStrip(bio.s)))

validate_bio_length(bio) ==
    IF bio.t = "none" THEN Ok(bio)
    ELSE IF StrLen(bio.s) > BioMaxLen
    THEN Fail("Bio must be at most 500 characters long")
    ELSE Ok(Str(Strip(bio.s)))

\* Bios: two whitespace characters and two others, in runs whose lengths
\* reach the length limit from both sides.
BioAlphabet == {" ", "\n", "x", "y"}

BioRunLengths == {1, 498, 500, 501}

BioInputs ==
    {NoneVal} \cup
    {Str(s) : s \in StringsUpTo(BioAlphabet, BioRunLengths, MaxRuns)}

\* UserBase.validate_bio: the field validator hands the value to
\* validate_bio_length.
ValidateBio ==
    /\ Idle
    /\ \E bio \in BioInputs :
        /\ op' = "validate_bio_length"
        /\ arg' = bio
        /\ res' = validate_bio_length(bio)
    /\ UNCHANGED <<first, role, changes>>

\* The value a validation returned is validated again.
RevalidateBio ==
    /\ op = "validate_bio_length"
    /\ res.ok
    /\ op' = "revalidate_bio"
    /\ first' = res
    /\ res' = validate_bio_length(res.val)
    /\ UNCHANGED <<arg, role, changes>>

NextBio == ValidateBio \/ RevalidateBio

SpecBio == InitValidators /\ [][NextBio]_vars

----------------------------------------------------------------------------
(* validate_email_format                                                   *)

EmailMaxLen == 255

\* The classes [a-zA-Z0-9._%+-] and [a-zA-Z0-9.-] of the email pattern.
EmailLocalChars == AsciiAlnum \cup {".", "_", "%", "+", "-"}

EmailDomainChars == AsciiAlnum \cup {".", "-"}

\* The indices of the runs of s that hold the character c.
RunsOf(s, c) == {i \in DOMAIN s : s[i][1] = c}

\* The largest member of a non-empty set of indices.
Last(indices) == CHOOSE i \in indices : \A j \in indices : j <= i

\* [a-zA-Z0-9.-]+\.[a-zA-Z]{2,} matches all of d.  The letters that end the
\* match hold no period, so the literal period is the last period of d:
\* after it come two or more letters, before it one or more characters of
\* the domain class.
EmailDomainFull(d) ==
    /\ RunsOf(d, ".") # {}
    /\ LET k == Last(RunsOf(d, "."))
           tld == SubSeq(d, k + 1, Len(d))
       IN /\ AllIn(d, EmailDomainChars)
          /\ AllIn(tld, AsciiLetter)
          /\ StrLen(tld) >= 2
          /\ (k > 1 \/ d[k][2] >= 2)

\* [a-zA-Z0-9._%+-]+@[a-zA-Z0-9.-]+\.[a-zA-Z]{2,} matches all of s.  Neither
\* class holds "@", so s holds exactly one.
EmailPatternFull(s) ==
    /\ Cardinality(RunsOf(s, "@")) = 1
    /\ LET a == Last(RunsOf(s, "@")) IN
       /\ s[a][2] = 1
       /\ a > 1
       /\ AllIn(SubSeq(s, 1, a - 1), EmailLocalChars)
       /\ EmailDomainFull(SubSeq(s, a + 1, Len(s)))

\* re.match(email_regex, s)
EmailPattern(s) ==
    \/ EmailPatternFull(s)
    \/ EndsWith(s, NL) /\ EmailPatternFull(ChopNewline(s))

\* '..' in email or email.startswith('.') or email.endswith('.')
EmailDotMistake(s) ==
    \/ HasDouble(s, ".")
    \/ s[1][1] = "."
    \/ s[Len(s)][1] = "."

\* str.swapcase of one character.
SwapChar(c) ==
    IF c \in DOMAIN LowerOf THEN LowerOf[c]
    ELSE IF \E u \in DOMAIN LowerOf : LowerOf[u] = c
         THEN CHOOSE u \in DOMAIN LowerOf : LowerOf[u] = c
         ELSE c

RECURSIVE SwapCase(_)
SwapCase(s) ==
    IF s = << >> THEN << >>
    ELSE Concat(<< <<SwapChar(s[1][1]), s[1][2]>> >>, SwapCase(Tail(s)))

\* A slip of the normalization: the case is swapped, not lowered.
validate_email_format_swapcase(email) ==
    IF ~Truthy(email) THEN Fail("Email is required")
    ELSE IF StrLen(email.s) > EmailMaxLen
    THEN Fail("Email must be at most 255 characters long")
    ELSE IF ~EmailPattern(email.s) THEN Fail("Invalid email format")
    ELSE IF EmailDotMistake(email.s)
    THEN Fail("Invalid email format: consecutive dots not allowed")
    ELSE Ok(Str(SwapCase(email.s)))

validate_email_format(email) ==
    IF ~Truthy(email) THEN Fail("Email is required")
    ELSE IF StrLen(email.s) > EmailMaxLen
    THEN Fail("Email must be at most 255 characters long")
    ELSE IF ~EmailPattern(email.s) THEN Fail("Invalid email format")
    ELSE IF EmailDotMistake(email.s)
    THEN Fail("Invalid email format: consecutive dots not allowed")
    ELSE Ok(Str(Lower(email.s)))

----------------------------------------------------------------------------
(* validate_url and validate_profile_picture_url                           *)

\* s[0] and s[1]
CharAt1(s) == s[1][1]

CharAt2(s) == IF s[1][2] >= 2 THEN s[1][1] ELSE s[2][1]

\* [^\s/$.?#].[^\s]* matches all of r: a character that is neither
\* whitespace nor one of / $ . ? #, then any character but a newline, then
\* characters that are not whitespace.
UrlRestFull(r) ==
    /\ StrLen(r) >= 2
    /\ CharAt1(r) \notin Whitespace \cup {"/", "$", ".", "?", "#"}
    /\ CharAt2(r) # "\n"
    /\ Chars(DropChars(r, 2)) \cap Whitespace = {}

HttpPrefix == Lit(<<"h","t","t","p",":","/","/">>)

HttpsPrefix == Lit(<<"h","t","t","p","s",":","/","/">>)

\* https?:\/\/[^\s/$.?#].[^\s]* matches all of s.
UrlPatternFull(s) ==
    \/ StartsWith(s, HttpsPrefix) /\ UrlRestFull(DropChars(s, StrLen(HttpsPrefix)))
    \/ StartsWith(s, HttpPrefix) /\ UrlRestFull(DropChars(s, StrLen(HttpPrefix)))

\* re.match(url_regex, s)
UrlPattern(s) ==
    \/ UrlPatternFull(s)
    \/ EndsWith(s, NL) /\ UrlPatternFull(ChopNewline(s))

validate_url(url) ==
    IF url.t = "none" THEN Ok(url)
    ELSE IF ~UrlPattern(url.s) THEN Fail("Invalid URL format")
    ELSE Ok(url)

\* The extensions of a profile picture.
PictureExtensions == {Lit(<<".","j","p","g">>), Lit(<<".","j","p","e","g">>), Lit(<<".","p","n","g">>), Lit(<<".","g","i","f">>)}

validate_profile_picture_url(url) ==
    IF url.t = "none" THEN Ok(url)
    ELSE IF ~UrlPattern(url.s) THEN Fail("Invalid URL format")
    ELSE IF \E ext \in PictureExtensions : EndsWith(Lower(url.s), ext)
    THEN Ok(url)
    ELSE Fail("Profile picture URL must end with .jpg, .jpeg, .png, or .gif")

----------------------------------------------------------------------------
(* The field types of pydantic that the schemas declare.                   *)

\* The characters RFC 5322 allows in the local part of an address besides
\* the period (the grave accent, which no input holds, left out).
Atext ==
    AsciiAlnum \cup {"!", "#", "$", "%", "&", "'", "*", "+", "-", "/", "=", "?",
                     "^", "_", "{", "|", "}", "~"}

\* The address syntax pydantic's EmailStr (package email-validator, no
\* deliverability check) accepts, for the ASCII addresses the inputs hold:
\* one "@"; a local part of 1..64 characters of Atext and periods that
\* neither starts nor ends with a period nor holds two in a row; a domain
\* of letters, digits, hyphens and periods that holds a period, whose
\* labels are not empty and neither start nor end with a hyphen; at most
\* 254 characters in all.
EmailStrSyntax(e) ==
    /\ Cardinality(RunsOf(e, "@")) = 1
    /\ LET a == Last(RunsOf(e, "@"))
           local == SubSeq(e, 1, a - 1)
           domain == SubSeq(e, a + 1, Len(e))
       IN /\ e[a][2] = 1
          /\ local # << >>
          /\ domain # << >>
          /\ StrLen(local) <= 64
          /\ StrLen(e) <= 254
          /\ AllIn(local, Atext \cup {"."})
          /\ ~HasDouble(local, ".")
          /\ local[1][1] # "."
          /\ local[Len(local)][1] # "."
          /\ AllIn(domain, AsciiAlnum \cup {"-", "."})
          /\ RunsOf(domain, ".") # {}
          /\ ~HasDouble(domain, ".")
          /\ domain[1][1] \notin {".", "-"}
          /\ domain[Len(domain)][1] \notin {".", "-"}
          /\ \A i \in 1..(Len(domain) - 1) :
                /\ ~(domain[i][1] = "." /\ domain[i + 1][1] = "-")
                /\ ~(domain[i][1] = "-" /\ domain[i + 1][1] = ".")

\* The address EmailStr hands on: the local part as written, the domain in
\* lower case.
EmailStrNormalized(e) ==
    LET a == Last(RunsOf(e, "@")) IN
    Concat(SubSeq(e, 1, a), Lower(SubSeq(e, a + 1, Len(e))))

\* The type EmailStr: a str, with surrounding whitespace stripped, that is
\* a valid address; the value handed on is the normalized address.
EmailStr(v) ==
    IF v.t # "str" THEN Fail("Input should be a valid string")
    ELSE IF ~EmailStrSyntax(Strip(v.s))
    THEN Fail("value is not a valid email address")
    ELSE Ok(Str(EmailStrNormalized(Strip(v.s))))

\* The type Optional[str].
OptionalStr(v) ==
    IF v.t \in {"none", "str"} THEN Ok(v) ELSE Fail("Input should be a valid string")

\* The type Optional[str] with Field(min_length=min, max_length=max).
BoundedStr(v, min, max, tooShort, tooLong) ==
    IF v.t = "none" THEN Ok(v)
    ELSE IF v.t # "str" THEN Fail("Input should be a valid string")
    ELSE IF StrLen(v.s) < min THEN Fail(tooShort)
    ELSE IF StrLen(v.s) > max THEN Fail(tooLong)
    ELSE Ok(v)

----------------------------------------------------------------------------
(* The schemas UserBase, UserCreate and UserUpdate.                        *)

\* A slip of the list: ANONYMOUS is missing.
RoleValues_no_anonymous == {Str(RoleText[r]) : r \in UserRole \ {"ANONYMOUS"}}

\* [role.value for role in UserRole]
RoleValues == {Str(RoleText[r]) : r \in UserRole}

UserBaseFields ==
    <<"email", "nickname", "first_name", "last_name", "bio",
      "profile_picture_url", "linkedin_profile_url", "github_profile_url">>

\* The fields of a schema, in the order of their declaration.
FieldsOf(cls) ==
    CASE cls = "UserBase"   -> UserBaseFields
      [] cls = "UserCreate" -> Append(UserBaseFields, "password")
      [] cls = "UserUpdate" -> Append(UserBaseFields, "role")
      [] cls = "UserResponse" ->
            UserBaseFields \o <<"id", "role", "is_professional">>

\* The fields declared with "..." (no default).
RequiredOf(cls) ==
    CASE cls = "UserBase"   -> {"email"}
      [] cls = "UserCreate" -> {"email", "password"}
      [] cls = "UserUpdate" -> {}
      [] cls = "UserResponse" -> {"email", "id"}

\* The field email: EmailStr, or Optional[EmailStr] in UserUpdate, and then
\* the validator validate_email, which is run on None as well.
EmailField(cls, v) ==
    IF v.t = "none"
    THEN IF cls = "UserUpdate"
         THEN validate_email_format(v)
         ELSE Fail("Input should be a valid string")
    ELSE LET typed == EmailStr(v) IN
         IF typed.ok THEN validate_email_format(typed.val) ELSE typed

\* The field nickname and the validator validate_nickname.
NicknameField(v) ==
    LET typed == BoundedStr(v, NicknameMinLen, NicknameMaxLen,
                            "String should have at least 3 characters",
                            "String should have at most 30 characters")
    IN IF typed.ok THEN validate_nickname(typed.val) ELSE typed

\* The field bio and the validator validate_bio.
BioField(v) ==
    LET typed == OptionalStr(v) IN
    IF typed.ok THEN validate_bio_length(typed.val) ELSE typed

\* The field profile_picture_url and the validator validate_profile_picture.
PictureField(v) ==
    LET typed == OptionalStr(v) IN
    IF typed.ok THEN validate_profile_picture_url(typed.val) ELSE typed

\* The fields linkedin_profile_url and github_profile_url: validate_url runs
\* first (pre=True), on the raw value.
SocialUrlField(v) ==
    IF v.t = "int" THEN Fail("expected string or bytes-like object")
    ELSE LET checked == validate_url(v) IN
         IF checked.ok THEN OptionalStr(checked.val) ELSE checked

\* The field password of UserCreate and validate_password_requirements.
PasswordOf(v) == validate_password(v.s)

PasswordField(v) ==
    IF v.t # "str" THEN Fail("Input should be a valid string")
    ELSE LET typed == BoundedStr(v, PasswordMinLen, PasswordMaxLen,
                                 "String should have at least 8 characters",
                                 "String should have at most 100 characters")
         IN IF typed.ok THEN PasswordOf(typed.val) ELSE typed

\* The field role of UserUpdate: Optional[UserRole].
RoleField(v) ==
    IF v.t = "none" \/ v \in RoleValues THEN Ok(v)
    ELSE Fail("Input should be 'ANONYMOUS', 'AUTHENTICATED', 'MANAGER' or 'ADMIN'")

\* A uuid.UUID of the given hexadecimal digits.
UuidVal(hex) == [t |-> "uuid", s |-> hex]

HexDigits == AsciiDigit \cup {"a", "b", "c", "d", "e", "f", "A", "B", "C", "D", "E", "F"}

\* The field id of UserResponse: uuid.UUID; a string of 32 hexadecimal
\* digits is converted (the forms with hyphens, braces or the urn: prefix,
\* which no input holds, left out).
IdField(v) ==
    IF v.t = "uuid" THEN Ok(v)
    ELSE IF v.t = "str" /\ StrLen(v.s) = 32 /\ Chars(v.s) \subseteq HexDigits
    THEN Ok(UuidVal(Lower(v.s)))
    ELSE Fail("Input should be a valid UUID")

\* The field role of UserResponse: UserRole, a member or its text.
ResponseRoleField(v) ==
    IF v \in RoleValues THEN Ok(v)
    ELSE Fail("Input should be 'ANONYMOUS', 'AUTHENTICATED', 'MANAGER' or 'ADMIN'")

\* The field is_professional of UserResponse: Optional[bool]; the numbers
\* 0 and 1 are converted.
BoolField(v) ==
    IF v.t \in {"none", "bool"} THEN Ok(v)
    ELSE IF v.t = "int" /\ v.s \in {Lit(<<"0">>), Lit(<<"1">>)}
    THEN Ok(BoolVal(v.s = Lit(<<"1">>)))
    ELSE Fail("Input should be a valid boolean")

\* A slip of the default role: ANONYMOUS.
DefaultOf_anonymous(cls, f) ==
    IF cls = "UserResponse" /\ f = "role" THEN Str(RoleText["ANONYMOUS"])
    ELSE IF cls = "UserResponse" /\ f = "is_professional" THEN BoolVal(FALSE)
    ELSE NoneVal

\* The default of a field that is not required.
DefaultOf(cls, f) ==
    IF cls = "UserResponse" /\ f = "role" THEN Str(RoleText["AUTHENTICATED"])
    ELSE IF cls = "UserResponse" /\ f = "is_professional" THEN BoolVal(FALSE)
    ELSE NoneVal

\* The validation of one field of a schema from the payload values: a field
\* the payload does not name takes its default without validation.
ValidateField(cls, f, values) ==
    IF f \notin DOMAIN values
    THEN IF f \in RequiredOf(cls) THEN Fail("Field required") ELSE Ok(DefaultOf(cls, f))
    ELSE CASE f = "email"                -> EmailField(cls, values[f])
           [] f = "nickname"             -> NicknameField(values[f])
           [] f = "first_name"           -> OptionalStr(values[f])
           [] f = "last_name"            -> OptionalStr(values[f])
           [] f = "bio"                  -> BioField(values[f])
           [] f = "profile_picture_url"  -> PictureField(values[f])
           [] f = "linkedin_profile_url" -> SocialUrlField(values[f])
           [] f = "github_profile_url"   -> SocialUrlField(values[f])
           [] f = "password"             -> PasswordField(values[f])
           [] f = "role"                 ->
                 IF cls = "UserResponse" THEN ResponseRoleField(values[f])
                 ELSE RoleField(values[f])
           [] f = "id"                   -> IdField(values[f])
           [] f = "is_professional"      -> BoolField(values[f])

\* The construction of a record of a schema from the payload values: every
\* field is validated; keys that are no field of the schema are ignored.
\* A failure reports the first failing field.
Construct(cls, values) ==
    LET order == FieldsOf(cls)
        out == [i \in DOMAIN order |-> ValidateField(cls, order[i], values)]
        bad == {i \in DOMAIN order : ~out[i].ok}
    IN IF bad = {}
       THEN Ok([f \in {order[i] : i \in DOMAIN order} |->
                    out[CHOOSE i \in DOMAIN order : order[i] = f].val])
       ELSE out[CHOOSE i \in bad : \A j \in bad : i <= j]

\* values[key], when the payload names the key and the value is truthy
Given(values, key) == key \in DOMAIN values /\ Truthy(values[key])

\* A slip of the first check: a payload is refused only when it names no key.
check_update_fields_keys_only(values) ==
    IF DOMAIN values = {}
    THEN Fail("At least one field must be provided for update")
    ELSE Ok(values)

\* A slip of the bio step: the trimmed bio is put back into the payload.
check_update_fields_trims_bio(values) ==
    IF \A k \in DOMAIN values : ~Truthy(values[k])
    THEN Fail("At least one field must be provided for update")
    ELSE IF Given(values, "email") /\ ~validate_email_format(values["email"]).ok
    THEN validate_email_format(values["email"])
    ELSE IF Given(values, "profile_picture_url")
            /\ ~validate_profile_picture_url(values["profile_picture_url"]).ok
    THEN validate_profile_picture_url(values["profile_picture_url"])
    ELSE IF Given(values, "bio") /\ ~validate_bio_length(values["bio"]).ok
    THEN validate_bio_length(values["bio"])
    ELSE IF Given(values, "role") /\ values["role"] \notin RoleValues
    THEN Fail("Invalid role. Must be one of: ANONYMOUS, AUTHENTICATED, MANAGER, ADMIN")
    ELSE Ok([k \in DOMAIN values |->
                IF k = "email" /\ Given(values, "email")
                THEN validate_email_format(values["email"]).val
                ELSE IF k = "bio" /\ Given(values, "bio")
                THEN validate_bio_length(values["bio"]).val
                ELSE values[k]])

\* A slip of the order of the steps: the bio before the picture.
check_update_fields_bio_first(values) ==
    IF \A k \in DOMAIN values : ~Truthy(values[k])
    THEN Fail("At least one field must be provided for update")
    ELSE IF Given(values, "email") /\ ~validate_email_format(values["email"]).ok
    THEN validate_email_format(values["email"])
    ELSE IF Given(values, "bio") /\ ~validate_bio_length(values["bio"]).ok
    THEN validate_bio_length(values["bio"])
    ELSE IF Given(values, "profile_picture_url")
            /\ ~validate_profile_picture_url(values["profile_picture_url"]).ok
    THEN validate_profile_picture_url(values["profile_picture_url"])
    ELSE IF Given(values, "role") /\ values["role"] \notin RoleValues
    THEN Fail("Invalid role. Must be one of: ANONYMOUS, AUTHENTICATED, MANAGER, ADMIN")
    ELSE Ok(IF Given(values, "email")
            THEN [values EXCEPT !["email"] = validate_email_format(values["email"]).val]
            ELSE values)

\* UserUpdate.check_update_fields, the root validator run on the raw payload
\* before the fields are validated.
check_update_fields(values) ==
    IF \A k \in DOMAIN values : ~Truthy(values[k])
    THEN Fail("At least one field must be provided for update")
    ELSE IF Given(values, "email") /\ ~validate_email_format(values["email"]).ok
    THEN validate_email_format(values["email"])
    ELSE IF Given(values, "profile_picture_url")
            /\ ~validate_profile_picture_url(values["profile_picture_url"]).ok
    THEN validate_profile_picture_url(values["profile_picture_url"])
    ELSE IF Given(values, "bio") /\ ~validate_bio_length(values["bio"]).ok
    THEN validate_bio_length(values["bio"])
    ELSE IF Given(values, "role") /\ values["role"] \notin RoleValues
    THEN Fail("Invalid role. Must be one of: ANONYMOUS, AUTHENTICATED, MANAGER, ADMIN")
    ELSE Ok(IF Given(values, "email")
            THEN [values EXCEPT !["email"] = validate_email_format(values["email"]).val]
            ELSE values)

\* UserUpdate(**values): the pre-pass, then the fields.
UserUpdate(values) ==
    LET pre == check_update_fields(values) IN
    IF pre.ok THEN Construct("UserUpdate", pre.val) ELSE pre

\* The payload that names one key.
Only(key, v) == [k \in {key} |-> v]

----------------------------------------------------------------------------
(* Email inputs and the operations on them.                                *)

\* Addresses: a local part, "@", a domain, a period and a top-level domain,
\* each drawn from well-formed and ill-formed pieces, between optional
\* surrounding characters.
EmailLead == {<< >>, Lit(<<" ">>)}

EmailLocal ==
    {<< >>, Lit(<<"a">>), Lit(<<"A">>), Lit(<<"a",".","b">>), Lit(<<"a",".",".","b">>), Lit(<<".","a">>),
     Rep("a", 64), Rep("a", 65), Rep("a", 249), Rep("a", 250)}

EmailLocalEnd == {<< >>, Lit(<<".">>)}

EmailAt == {Lit(<<"@">>), << >>, Lit(<<"@","@">>)}

EmailDomain == {<< >>, Lit(<<"b">>), Lit(<<"B">>), Lit(<<"b","-","c">>), Lit(<<"-","b">>), Lit(<<"b",".",".","c">>), Lit(<<"b",".","c">>)}

EmailDot == {Lit(<<".">>), << >>}

EmailTld == {<< >>, Lit(<<"c">>), Lit(<<"c","c">>), Lit(<<"C","C">>), Lit(<<"c","1">>)}

EmailTrail == {<< >>, NL, Lit(<<".">>), Lit(<<" ">>)}

EmailStrings ==
    {Concat(lead, Concat(local, Concat(localEnd, Concat(at,
        Concat(domain, Concat(dot, Concat(tld, trail))))))) :
        lead \in EmailLead, local \in EmailLocal, localEnd \in EmailLocalEnd,
        at \in EmailAt, domain \in EmailDomain, dot \in EmailDot,
        tld \in EmailTld, trail \in EmailTrail}

EmailInputs == {NoneVal} \cup {Str(s) : s \in EmailStrings}

\* UserBase.validate_email hands the value to validate_email_format.
ValidateEmail ==
    /\ Idle
    /\ \E email \in EmailInputs :
        /\ op' = "validate_email_format"
        /\ arg' = email
        /\ res' = validate_email_format(email)
    /\ UNCHANGED <<first, role, changes>>

\* The value a validation returned is validated again.
RevalidateEmail ==
    /\ op = "validate_email_format"
    /\ res.ok
    /\ op' = "revalidate_email"
    /\ first' = res
    /\ res' = validate_email_format(res.val)
    /\ UNCHANGED <<arg, role, changes>>

\* UserBase(email=...)
CreateUserBase ==
    /\ Idle
    /\ \E email \in EmailInputs :
        /\ op' = "UserBase"
        /\ arg' = Only("email", email)
        /\ res' = Construct("UserBase", Only("email", email))
    /\ UNCHANGED <<first, role, changes>>

\* A password validate_password accepts.
GoodPassword == Str(Lit(<<"S","e","c","u","r","e","P","@","s","s","1","2","3">>))

\* UserCreate(email=..., password=...)
CreateUserCreate ==
    /\ Idle
    /\ \E email \in EmailInputs :
        LET values == [k \in {"email", "password"} |->
                          IF k = "email" THEN email ELSE GoodPassword] IN
        /\ op' = "UserCreate"
        /\ arg' = values
        /\ res' = Construct("UserCreate", values)
    /\ UNCHANGED <<first, role, changes>>

\* UserUpdate(email=...)
UpdateEmail ==
    /\ Idle
    /\ \E email \in EmailInputs :
        /\ op' = "UserUpdate"
        /\ arg' = Only("email", email)
        /\ first' = check_update_fields(Only("email", email))
        /\ res' = UserUpdate(Only("email", email))
    /\ UNCHANGED <<role, changes>>

NextEmail ==
    ValidateEmail \/ RevalidateEmail \/ CreateUserBase \/ CreateUserCreate
        \/ UpdateEmail

SpecEmail == InitValidators /\ [][NextEmail]_vars

\* Validation and re-validation of the two normalized fields.
NextNormalize == ValidateEmail \/ RevalidateEmail \/ ValidateBio \/ RevalidateBio

SpecNormalize == InitValidators /\ [][NextNormalize]_vars

----------------------------------------------------------------------------
(* Update payloads and the construction of UserUpdate.                     *)

\* The keys of a raw update payload: the fields of UserUpdate and a key
\* that is no field.
UpdateKeys == Append(FieldsOf("UserUpdate"), "unknown_key")

GoodEmail == Str(Lit(<<"A","@","b",".","c","c">>))

GoodPicture == Str(Lit(<<"h","t","t","p",":","/","/","a",".","b","/","c",".","J","P","G">>))

GoodUrl == Str(Lit(<<"h","t","t","p","s",":","/","/","a",".","b","/","c">>))

NotAUrl == Str(Lit(<<"n","o","t","-","a","-","u","r","l">>))

\* The values a payload may give each key: None, the empty string, falsy
\* and truthy numbers, whitespace, and valid and invalid values of the field.
ValuesFor(key) ==
    CASE key = "email" -> {NoneVal, Str(<< >>), GoodEmail, Str(Lit(<<"a","@","b">>))}
      [] key = "nickname" ->
            {NoneVal, Str(<< >>), Str(Lit(<<"a","b","c">>)), Str(Lit(<<"a","b">>)),
             Str(Lit(<<"a","b","c","\n">>))}
      [] key = "first_name" -> {NoneVal, Str(Lit(<<"J","o">>)), IntVal(Lit(<<"0">>)), IntVal(Lit(<<"1">>))}
      [] key = "last_name" -> {Str(<< >>), Str(Lit(<<"D","o">>))}
      [] key = "bio" ->
            {NoneVal, Str(<< >>), Str(Lit(<<"x">>)), Str(Rep(" ", 2)), Str(Lit(<<" ","x"," ">>)),
             Str(Rep("x", 501))}
      [] key = "profile_picture_url" ->
            {NoneVal, Str(<< >>), GoodPicture, GoodUrl, NotAUrl}
      [] key = "linkedin_profile_url" -> {NoneVal, GoodUrl, NotAUrl}
      [] key = "github_profile_url" -> {Str(<< >>), GoodUrl}
      [] key = "role" ->
            {NoneVal, Str(<< >>), Str(RoleText["ADMIN"]), Str(RoleText["ANONYMOUS"]),
             Str(RoleText["AUTHENTICATED"]), Str(RoleText["MANAGER"]),
             Str(Lit(<<"G","U","E","S","T">>)), Str(Lit(<<"a","d","m","i","n">>)),
             IntVal(Lit(<<"1">>))}
      [] key = "unknown_key" -> {NoneVal, Str(Lit(<<"x">>)), IntVal(Lit(<<"0">>))}

\* The payload with no entry, and a payload with one entry more.
EmptyPayload == [k \in {} |-> NoneVal]

Extend(values, key, v) ==
    [k \in DOMAIN values \cup {key} |-> IF k = key THEN v ELSE values[k]]

\* The most entries a generated payload has.
MaxEntries == 2

RECURSIVE PayloadsFrom(_, _)
\* The payloads over the keys UpdateKeys[i], UpdateKeys[i + 1], ... with at
\* most n entries.
PayloadsFrom(i, n) ==
    IF i > Len(UpdateKeys) \/ n = 0 THEN {EmptyPayload}
    ELSE PayloadsFrom(i + 1, n) \cup
         {Extend(values, UpdateKeys[i], v) :
             values \in PayloadsFrom(i + 1, n - 1), v \in ValuesFor(UpdateKeys[i])}

UpdatePayloads == PayloadsFrom(1, MaxEntries)

\* UserUpdate(**values); first is the outcome of the pre-pass, on whose
\* payload the fields are then validated.
ConstructUserUpdate ==
    /\ Idle
    /\ \E values \in UpdatePayloads :
        /\ op' = "UserUpdate"
        /\ arg' = values
        /\ first' = check_update_fields(values)
        /\ res' = UserUpdate(values)
    /\ UNCHANGED <<role, changes>>

NextUpdate == ConstructUserUpdate

SpecUpdate == InitValidators /\ [][NextUpdate]_vars

\* The same for a user of any current role: the schema is given the
\* payload only.
SpecUpdateAnyRole == InitRole /\ [][NextUpdate]_vars

----------------------------------------------------------------------------
(* Profile-picture URLs and the operations on them.                        *)

UrlScheme ==
    {<< >>, HttpPrefix, HttpsPrefix, Lit(<<"f","t","p",":","/","/">>),
     Lit(<<"H","T","T","P",":","/","/">>)}

UrlHost ==
    {<< >>, Lit(<<"a">>), Lit(<<"a",".","b">>), Lit(<<".","b">>), Lit(<<"a",".","j","p","g">>)}

UrlPath ==
    {<< >>, Lit(<<"/","c">>), Lit(<<"/","c",".","j","p","g">>), Lit(<<"/","c",".","J","P","G">>),
     Lit(<<"/","c",".","j","p","e","g">>), Lit(<<"/","c",".","p","n","g">>),
     Lit(<<"/","c",".","g","i","f">>), Lit(<<"/","c",".","p","d","f">>),
     Lit(<<"/","c"," ",".","j","p","g">>)}

UrlTail ==
    {<< >>, Lit(<<"?","x","=","1">>), Lit(<<"?","x","=",".","j","p","g">>),
     Lit(<<"#",".","p","n","g">>), NL, Lit(<<" ">>)}

\* URLs: a scheme, a host, a path and a query, a fragment or a trailing
\* whitespace character, each drawn from well-formed and ill-formed pieces.
PictureInputs ==
    {NoneVal} \cup
    {Str(Concat(scheme, Concat(host, Concat(path, tail)))) :
        scheme \in UrlScheme, host \in UrlHost, path \in UrlPath, tail \in UrlTail}

\* UserBase.validate_profile_picture hands a present value to
\* validate_profile_picture_url.
ValidatePicture ==
    /\ Idle
    /\ \E url \in PictureInputs :
        /\ op' = "validate_profile_picture_url"
        /\ arg' = url
        /\ res' = validate_profile_picture_url(url)
    /\ UNCHANGED <<first, role, changes>>

\* The social URL fields hand the raw value to validate_url.
ValidateUrl ==
    /\ Idle
    /\ \E url \in PictureInputs :
        /\ op' = "validate_url"
        /\ arg' = url
        /\ res' = validate_url(url)
    /\ UNCHANGED <<first, role, changes>>

NextPicture == ValidatePicture \/ ValidateUrl

SpecPicture == InitValidators /\ [][NextPicture]_vars

----------------------------------------------------------------------------
(* UserResponse and UserListResponse.                                      *)

\* The number a decimal numeral denotes.
DigitValue ==
    [c \in AsciiDigit |->
        CASE c = "0" -> 0 [] c = "1" -> 1 [] c = "2" -> 2 [] c = "3" -> 3
          [] c = "4" -> 4 [] c = "5" -> 5 [] c = "6" -> 6 [] c = "7" -> 7
          [] c = "8" -> 8 [] c = "9" -> 9]

RECURSIVE DecimalValue(_)
DecimalValue(s) ==
    IF s = << >> THEN 0
    ELSE IF s[1][1] = "-" THEN 0 - DecimalValue(DropChars(s, 1))
    ELSE 10 * DecimalValue(TakeChars(s, StrLen(s) - 1))
            + DigitValue[s[Len(s)][1]]

\* A field of type int: an int, or a string that is a decimal numeral.
IntField(v) ==
    IF v.t = "int" THEN Ok(v)
    ELSE IF v.t = "str" /\ v.s # << >> /\ Chars(v.s) \subseteq AsciiDigit
    THEN Ok(IntVal(v.s))
    ELSE Fail("Input should be a valid integer")

\* UserListResponse(items=..., total=..., page=..., size=...): every item is
\* validated as a UserResponse, the three numbers as int; the class holds
\* no validator of its own.
UserListResponse(values) ==
    LET items == [i \in DOMAIN values.items |->
                     Construct("UserResponse", values.items[i])]
        bad == {i \in DOMAIN items : ~items[i].ok}
        total == IntField(values.total)
        page == IntField(values.page)
        size == IntField(values.size)
    IN IF bad # {} THEN items[CHOOSE i \in bad : \A j \in bad : i <= j]
       ELSE IF ~total.ok THEN total
       ELSE IF ~page.ok THEN page
       ELSE IF ~size.ok THEN size
       ELSE Ok([items |-> [i \in DOMAIN items |-> items[i].val],
                total |-> total.val, page |-> page.val, size |-> size.val])

SomeId == UuidVal(Rep("a", 32))

\* Payloads of an item: with the required fields only, with defaults
\* overridden, without the id, and with an email that is refused.
ItemPayloads ==
    {[email |-> GoodEmail, id |-> SomeId],
     [email |-> GoodEmail, id |-> Str(Rep("A", 32)), role |-> Str(RoleText["ADMIN"]),
      is_professional |-> BoolVal(TRUE)],
     [email |-> GoodEmail],
     [email |-> Str(Lit(<<"a","@","b">>)), id |-> SomeId]}

\* The most items a generated list has.
MaxItems == 2

RECURSIVE ItemLists(_)
ItemLists(n) ==
    IF n = 0 THEN {<< >>}
    ELSE LET shorter == ItemLists(n - 1) IN
         shorter \cup {Append(l, item) : l \in {k \in shorter : Len(k) = n - 1},
                                         item \in ItemPayloads}

Numbers ==
    {IntVal(Lit(<<"-","1">>)), IntVal(Lit(<<"0">>)), IntVal(Lit(<<"1">>)),
     IntVal(Lit(<<"2">>)), IntVal(Lit(<<"1","0">>))}

\* UserListResponse(**values)
ConstructUserListResponse ==
    /\ Idle
    /\ \E items \in ItemLists(MaxItems),
          total \in {IntVal(Lit(<<"0">>)), IntVal(Lit(<<"2">>))},
          page \in Numbers \cup {NoneVal},
          size \in Numbers \cup {Str(Lit(<<"1">>)), Str(Lit(<<"x">>))} :
        LET values == [items |-> items, total |-> total, page |-> page, size |-> size] IN
        /\ op' = "UserListResponse"
        /\ arg' = values
        /\ res' = UserListResponse(values)
    /\ UNCHANGED <<first, role, changes>>

NextList == ConstructUserListResponse

SpecList == InitValidators /\ [][NextList]_vars

----------------------------------------------------------------------------
(* UserCreate, and the UserResponse the service builds from its record.    *)

\* Payloads of UserCreate: an email, a password and entries for the other
\* keys (some of them no field of UserCreate).
CreatePayloads ==
    {Extend(Extend(values, "email", email), "password", password) :
        values \in PayloadsFrom(2, MaxEntries),
        email \in {GoodEmail, Str(Lit(<<" ","A","@","b",".","c","c">>)),
                   Str(Lit(<<"a","@","B",".","c","c","\n">>)), Str(Lit(<<"a","@","b">>))},
        password \in {GoodPassword, Str(Lit(<<"w","e","a","k">>))}}

\* UserCreate(**values)
ConstructUserCreate ==
    /\ Idle
    /\ \E values \in CreatePayloads :
        /\ op' = "UserCreate"
        /\ arg' = values
        /\ res' = Construct("UserCreate", values)
    /\ UNCHANGED <<first, role, changes>>

\* The fields of a record without the key.
Without(record, key) == [k \in DOMAIN record \ {key} |-> record[k]]

\* The projection by the service (not part of the sources): it builds a
\* UserResponse from the fields of the accepted UserCreate record and an id,
\* with or without the password, and with or without a role and
\* is_professional of its own.
RespondToCreate ==
    /\ op = "UserCreate"
    /\ res.ok
    /\ \E id \in {SomeId, Str(Rep("A", 32))},
          fields \in {res.val, Without(res.val, "password")},
          supplied \in BOOLEAN :
        LET withId == Extend(fields, "id", id)
            values == IF supplied
                      THEN Extend(Extend(withId, "role", Str(RoleText["MANAGER"])),
                                  "is_professional", BoolVal(TRUE))
                      ELSE withId
        IN /\ op' = "UserResponse"
           /\ arg' = values
           /\ first' = res
           /\ res' = Construct("UserResponse", values)
    /\ UNCHANGED <<role, changes>>

NextRespond == ConstructUserCreate \/ RespondToCreate

SpecRespond == InitValidators /\ [][NextRespond]_vars

----------------------------------------------------------------------------
(* Claims about the role policy.                                           *)

\* The position of a role on the promotion path.
Rank(r) ==
    CASE r = "ANONYMOUS" -> 0 [] r = "AUTHENTICATED" -> 1
      [] r = "MANAGER" -> 2 [] r = "ADMIN" -> 3

\* C1: for every pair (current, proposed) of the four roles,
\* validate_role_transition returns true exactly for (ANONYMOUS,
\* AUTHENTICATED), (AUTHENTICATED, MANAGER) and (MANAGER, ADMIN); every
\* self-transition, skip, demotion and transition out of ADMIN is false.
C1_TransitionTable ==
    (op = "validate_role_transition" /\ arg[1] \in UserRole /\ arg[2] \in UserRole)
        => /\ res.ok
           /\ res.val = BoolVal(arg \in {<<"ANONYMOUS", "AUTHENTICATED">>,
                                          <<"AUTHENTICATED", "MANAGER">>,
                                          <<"MANAGER", "ADMIN">>})
           /\ (arg[1] = arg[2] => res.val = BoolVal(FALSE))
           /\ (Rank(arg[2]) > Rank(arg[1]) + 1 => res.val = BoolVal(FALSE))
           /\ (Rank(arg[2]) < Rank(arg[1]) => res.val = BoolVal(FALSE))
           /\ (arg[1] = "ADMIN" => res.val = BoolVal(FALSE))

\* C1 witness: the policy was asked about the promotion MANAGER -> ADMIN and
\* allowed it.
C1_Witness ==
    /\ op = "validate_role_transition"
    /\ arg = <<"MANAGER", "ADMIN">>
    /\ res.val = BoolVal(TRUE)

\* C2: under the update service the role never moves down the order
\* ANONYMOUS < AUTHENTICATED < MANAGER < ADMIN, every committed change
\* moves it up by exactly one tier, and a refused request leaves the role
\* exactly as it was.
C2_RoleSteps ==
    [][ /\ Rank(role') >= Rank(role)
        /\ (role' # role => Rank(role') = Rank(role) + 1)
        /\ (op' = "update_role" /\ res'.ok
               => role' = arg'[2] /\ Rank(role') = Rank(role) + 1)
        /\ (op' = "update_role" /\ ~res'.ok => role' = role) ]_vars

\* C2 witness: a request was refused after an earlier one was committed.
C2_Witness ==
    /\ op = "update_role"
    /\ ~res.ok
    /\ changes >= 1
    /\ arg[1] = role
    /\ Rank(arg[2]) < Rank(role)

----------------------------------------------------------------------------
(* Claims about the password validator.                                    *)

\* What the password rules give for s when "uppercase letter" and
\* "lowercase letter" mean membership in the sets upper and lower: the input
\* unchanged, or the message of the first violated rule in the order minimum
\* length, maximum length, uppercase, lowercase, digit, special character.
PasswordRules(s, upper, lower) ==
    IF StrLen(s) < 8 THEN Fail("Password must be at least 8 characters long")
    ELSE IF StrLen(s) > 100 THEN Fail("Password must be at most 100 characters long")
    ELSE IF Chars(s) \cap upper = {}
    THEN Fail("Password must contain at least one uppercase letter")
    ELSE IF Chars(s) \cap lower = {}
    THEN Fail("Password must contain at least one lowercase letter")
    ELSE IF \A c \in Chars(s) : ~IsDigit(c)
    THEN Fail("Password must contain at least one number")
    ELSE IF Chars(s) \cap SpecialChars = {}
    THEN Fail("Password must contain at least one special character")
    ELSE Ok(Str(s))

\* C7 as stated: the password validator returns its input unchanged exactly
\* when the length is in 8..100 and the password holds an uppercase ASCII
\* letter, a lowercase ASCII letter, a digit and a special character;
\* otherwise it fails with the message of the first violated rule.
C7_AsciiLetters ==
    op = "validate_password"
        => /\ res = PasswordRules(arg.s, AsciiUpper, AsciiLower)
           /\ res.ok <=> (/\ StrLen(arg.s) \in 8..100
                          /\ Chars(arg.s) \cap AsciiUpper # {}
                          /\ Chars(arg.s) \cap AsciiLower # {}
                          /\ HasDigit(arg.s)
                          /\ Chars(arg.s) \cap SpecialChars # {})

\* C7 amended: the same, with "uppercase letter" and "lowercase letter"
\* read as str.isupper and str.islower decide them, so that a letter
\* outside ASCII counts as well.
C7_UnicodeLetters ==
    op = "validate_password"
        => /\ res = PasswordRules(arg.s, AsciiUpper \cup NonAsciiUpper,
                                  AsciiLower \cup NonAsciiLower)
           /\ res.ok <=> (/\ StrLen(arg.s) \in 8..100
                          /\ Chars(arg.s) \cap (AsciiUpper \cup NonAsciiUpper) # {}
                          /\ Chars(arg.s) \cap (AsciiLower \cup NonAsciiLower) # {}
                          /\ Chars(arg.s) \cap (AsciiDigit \cup NonAsciiDigit) # {}
                          /\ Chars(arg.s) \cap SpecialChars # {})
           /\ res.ok => res.val = arg

\* C7 witness: a password of exactly 100 characters whose only uppercase
\* letter is outside ASCII was returned unchanged.
C7_Witness ==
    /\ op = "validate_password"
    /\ res.ok
    /\ res.val = arg
    /\ StrLen(arg.s) = 100
    /\ Chars(arg.s) \cap AsciiUpper = {}

----------------------------------------------------------------------------
(* Claims about the nickname validator.                                    *)

\* C8 as stated: a present nickname is returned unchanged exactly when its
\* length is in 3..30, it contains neither "--" nor "__" and the whole of it
\* is an ASCII letter or digit followed by ASCII letters, digits,
\* underscores and hyphens; otherwise the validator fails with the message
\* of the first violated rule in the order length below 3, length above 30,
\* start character, consecutive separators, full pattern.
C8_NicknameRules ==
    (op = "validate_nickname" /\ arg.t = "str")
        => /\ res.ok <=> (/\ StrLen(arg.s) \in 3..30
                          /\ ~HasDouble(arg.s, "-")
                          /\ ~HasDouble(arg.s, "_")
                          /\ arg.s[1][1] \in AsciiAlnum
                          /\ Chars(arg.s) \subseteq AsciiAlnum \cup {"_", "-"})
           /\ res.ok => res.val = arg
           /\ res =
                IF StrLen(arg.s) < 3
                THEN Fail("Nickname must be at least 3 characters long")
                ELSE IF StrLen(arg.s) > 30
                THEN Fail("Nickname must be at most 30 characters long")
                ELSE IF ~IsAlnum(arg.s[1][1])
                THEN Fail("Nickname must start with a letter or number")
                ELSE IF HasDouble(arg.s, "-") \/ HasDouble(arg.s, "_")
                THEN Fail("Nickname cannot contain consecutive hyphens or underscores")
                ELSE IF ~(Chars(arg.s) \subseteq AsciiAlnum \cup {"_", "-"})
                THEN Fail("Nickname can only contain letters, numbers, underscores, and hyphens")
                ELSE Ok(arg)

----------------------------------------------------------------------------
(* Claims about the bio validator.                                         *)

\* r is s without its leading and trailing whitespace, nothing else
\* changed: s is r between two stretches of whitespace, and r neither
\* starts nor ends with whitespace.
IsTrimOf(r, s) ==
    /\ \E i \in 1..(Len(s) + 1), j \in 0..Len(s) :
          /\ r = SubSeq(s, i, j)
          /\ \A k \in 1..(i - 1) : s[k][1] \in Whitespace
          /\ \A k \in (j + 1)..Len(s) : s[k][1] \in Whitespace
    /\ r # << >> => (r[1][1] \notin Whitespace /\ r[Len(r)][1] \notin Whitespace)

\* C9: for a present bio the validator fails exactly when the length of the
\* submitted value, before any trimming, exceeds 500; on success the result
\* is the submitted value with leading and trailing whitespace removed and
\* nothing else changed.
C9_BioLengthAndTrim ==
    (op = "validate_bio_length" /\ arg.t = "str")
        => /\ ~res.ok <=> StrLen(arg.s) > 500
           /\ ~res.ok => res.err = "Bio must be at most 500 characters long"
           /\ res.ok => (res.val.t = "str" /\ IsTrimOf(res.val.s, arg.s))

\* C9 witness: a bio of exactly 500 characters that starts and ends with
\* whitespace was accepted and trimmed.
C9_Witness ==
    /\ op = "validate_bio_length"
    /\ arg.t = "str"
    /\ StrLen(arg.s) = 500
    /\ res.ok
    /\ StrLen(res.val.s) < 500
    /\ arg.s[1][1] \in Whitespace
    /\ arg.s[Len(arg.s)][1] \in Whitespace

----------------------------------------------------------------------------
(* Claims about the construction of UserUpdate.                            *)

\* C3 as stated: every UserUpdate record that construction accepts has at
\* least one of its fields present with a non-empty value.
C3_AcceptedHasField ==
    (op = "UserUpdate" /\ res.ok)
        => \E f \in DOMAIN res.val : Truthy(res.val[f])

\* C4: construction of UserUpdate fails with the message "At least one field
\* must be provided for update" if every value of the payload is empty or
\* absent (the payload with no entry included), and does not fail with that
\* message when at least one value is non-empty.
C4_AtLeastOneField ==
    op = "UserUpdate"
        => ((~res.ok /\ res.err = "At least one field must be provided for update")
               <=> (\A k \in DOMAIN arg : ~Truthy(arg[k])))

\* C4 witness: a payload whose two values are both falsy (an empty string
\* and the number 0) was refused with the message.
C4_Witness ==
    /\ op = "UserUpdate"
    /\ Cardinality(DOMAIN arg) = 2
    /\ \E k \in DOMAIN arg : arg[k] = Str(<< >>)
    /\ \E k \in DOMAIN arg : arg[k].t = "int"
    /\ res.err = "At least one field must be provided for update"

----------------------------------------------------------------------------
(* Claims about the email validator.                                       *)

\* The operations that construct a record from a payload with an email.
Constructions == {"UserBase", "UserCreate", "UserUpdate"}

\* C5 as stated: for every email the Email validator accepts, on creation
\* and on update, the email held by the constructed record is the
\* lower-cased form of the input and contains no uppercase letter.
C5_RecordHoldsLowerOfInput ==
    (/\ op \in Constructions
     /\ validate_email_format(arg["email"]).ok
     /\ res.ok)
        => /\ res.val["email"] = Str(Lower(arg["email"].s))
           /\ \A c \in Chars(res.val["email"].s) : ~IsUpper(c)

\* C6 as stated: construction with an email fails whenever the email is
\* empty, is longer than 255 characters, does not match local@domain.tld,
\* contains two consecutive dots, or has a local part that starts or ends
\* with a dot.
C6_IllFormedEmailFails ==
    (/\ op \in Constructions
     /\ arg["email"].t = "str"
     /\ LET e == arg["email"].s IN
        \/ e = << >>
        \/ StrLen(e) > 255
        \/ ~EmailPatternFull(e)
        \/ HasDouble(e, ".")
        \/ e[1][1] = "."
        \/ \E i \in DOMAIN e : e[i][1] = "@" /\ i > 1 /\ e[i - 1][1] = ".")
        => ~res.ok

\* C10: normalization is idempotent: validating again the result of an
\* accepted email, or of an accepted bio, succeeds and returns the same
\* value.
C10_Idempotent ==
    op \in {"revalidate_email", "revalidate_bio"}
        => (res.ok /\ res.val = first.val /\ res = first)

\* C10 witness: an email holding an uppercase letter, and so changed by the
\* first validation, was validated a second time.
C10_Witness ==
    /\ op = "revalidate_email"
    /\ \E c \in Chars(arg.s) : IsUpper(c)
    /\ first.val # arg
    /\ res.ok

----------------------------------------------------------------------------
(* Claims about the profile-picture URL validator.                         *)

\* The path of a URL that matches the pattern: what follows the scheme and
\* the host, from the first "/" up to the query ("?") or the fragment ("#").
PathOf(s) ==
    LET r == DropChars(s, IF StartsWith(s, HttpsPrefix) THEN StrLen(HttpsPrefix)
                          ELSE StrLen(HttpPrefix))
        stops == {i \in DOMAIN r : r[i][1] \in {"?", "#"}}
        end == IF stops = {} THEN Len(r)
               ELSE (CHOOSE i \in stops : \A j \in stops : i <= j) - 1
        slashes == {i \in 1..end : r[i][1] = "/"}
    IN IF slashes = {} THEN << >>
       ELSE SubSeq(r, CHOOSE i \in slashes : \A j \in slashes : i <= j, end)

\* The path of the URL ends in one of the four extensions, in any case.
PathEndsInExtension(s) ==
    \E ext \in PictureExtensions : EndsWith(Lower(PathOf(s)), ext)

\* C11 as stated: a present profile-picture URL that does not match the
\* http(s) pattern fails with "Invalid URL format" whatever its ending; one
\* that matches but whose path does not end in .jpg, .jpeg, .png or .gif
\* (in any case) fails with the wrong-file-type message; it is returned
\* unchanged only when it matches and its path ends in such an extension.
C11_PictureByPath ==
    (op = "validate_profile_picture_url" /\ arg.t = "str")
        => /\ ~UrlPatternFull(arg.s) => res = Fail("Invalid URL format")
           /\ (UrlPatternFull(arg.s) /\ ~PathEndsInExtension(arg.s))
                 => res = Fail("Profile picture URL must end with .jpg, .jpeg, .png, or .gif")
           /\ res.ok => (/\ res.val = arg
                         /\ UrlPatternFull(arg.s)
                         /\ PathEndsInExtension(arg.s))

----------------------------------------------------------------------------
(* Claims about the response shapes.                                       *)

\* C12 as stated: every UserListResponse that construction accepts holds
\* at most size items (and size is not negative) and a page of at least 1.
C12_ListWithinPage ==
    (op = "UserListResponse" /\ res.ok)
        => /\ 0 <= Len(res.val.items)
           /\ Len(res.val.items) <= DecimalValue(res.val.size.s)
           /\ DecimalValue(res.val.page.s) >= 1

\* C13: for every payload UserCreate accepts, building a UserResponse from
\* the accepted record and an id succeeds, keeps the email, the nickname,
\* the names, the bio and the three URLs of the record, holds no password,
\* and has the role AUTHENTICATED and is_professional false when the
\* service supplies neither.
C13_ResponseKeepsRecord ==
    op = "UserResponse"
        => /\ res.ok
           /\ \A i \in DOMAIN UserBaseFields :
                 res.val[UserBaseFields[i]] = first.val[UserBaseFields[i]]
           /\ "password" \notin DOMAIN res.val
           /\ res.val["id"].t = "uuid"
           /\ ("role" \notin DOMAIN arg /\ "is_professional" \notin DOMAIN arg)
                 => /\ res.val["role"] = Str(RoleText["AUTHENTICATED"])
                    /\ res.val["is_professional"] = BoolVal(FALSE)

\* C13 witness: a response was built from a record with a bio and a
\* nickname, the service passing the password along and supplying neither a
\* role nor is_professional.
C13_Witness ==
    /\ op = "UserResponse"
    /\ res.ok
    /\ "password" \in DOMAIN arg
    /\ "role" \notin DOMAIN arg
    /\ Truthy(first.val["bio"])
    /\ Truthy(first.val["nickname"])
    /\ res.val["role"] = Str(RoleText["AUTHENTICATED"])

----------------------------------------------------------------------------
(* Claims about the update pre-pass.                                       *)

\* The four role names.
RoleNames == {Str(RoleText[r]) : r \in UserRole}

\* The role a role name denotes.
RoleOf(v) == CHOOSE r \in UserRole : Str(RoleText[r]) = v

\* The steps of the pre-pass before the role step let the payload through.
StepsBeforeRolePass(values) ==
    /\ \E k \in DOMAIN values : Truthy(values[k])
    /\ Given(values, "email") => validate_email_format(values["email"]).ok
    /\ Given(values, "profile_picture_url")
          => validate_profile_picture_url(values["profile_picture_url"]).ok
    /\ Given(values, "bio") => validate_bio_length(values["bio"]).ok

\* C14: in the pre-pass a present, non-empty role is accepted exactly when
\* it is one of the four role names and fails with the "Invalid role" error
\* otherwise; acceptance does not depend on the current role: a payload
\* that names a role only is accepted by UserUpdate for every role name,
\* whatever the current role.
C14_RoleByMembership ==
    (op = "UserUpdate" /\ Given(arg, "role") /\ StepsBeforeRolePass(arg))
        => /\ first.ok <=> arg["role"] \in RoleNames
           /\ ~first.ok => first.err =
                 "Invalid role. Must be one of: ANONYMOUS, AUTHENTICATED, MANAGER, ADMIN"
           /\ (DOMAIN arg = {"role"} /\ arg["role"] \in RoleNames)
                 => (res.ok /\ res.val["role"] = arg["role"])

\* C14 witness: UserUpdate accepted the role ANONYMOUS for a user whose
\* current role is ADMIN, a demotion the policy refuses.
C14_Witness ==
    /\ op = "UserUpdate"
    /\ role = "ADMIN"
    /\ DOMAIN arg = {"role"}
    /\ arg["role"] = Str(RoleText["ANONYMOUS"])
    /\ first.ok
    /\ res.ok
    /\ res.val["role"] = arg["role"]
    /\ ~validate_role_transition(role, RoleOf(arg["role"]))

\* C15: when the pre-pass succeeds, the payload it passes on has the keys
\* of the raw payload and the submitted value under every key but email
\* (the bio and the picture URL, whose validators were run, included); a
\* present, non-empty email is replaced by its lower-cased form.
C15_OnlyEmailReplaced ==
    (op = "UserUpdate" /\ first.ok)
        => /\ DOMAIN first.val = DOMAIN arg
           /\ \A k \in DOMAIN arg \ {"email"} : first.val[k] = arg[k]
           /\ "email" \in DOMAIN arg
                 => first.val["email"] =
                       IF Truthy(arg["email"]) THEN Str(Lower(arg["email"].s))
                       ELSE arg["email"]

\* C15 witness: the pre-pass let through a payload with an email holding an
\* uppercase letter and a bio with surrounding whitespace; the email was
\* replaced and the bio was not.
C15_Witness ==
    /\ op = "UserUpdate"
    /\ first.ok
    /\ DOMAIN arg = {"email", "bio"}
    /\ first.val["email"] # arg["email"]
    /\ arg["bio"].t = "str"
    /\ Strip(arg["bio"].s) # arg["bio"].s
    /\ first.val["bio"] = arg["bio"]

\* The outcomes of the five steps of the pre-pass on a payload, each taken
\* alone, in the order of the steps: Nothing for a step that does not fail.
StepOutcomes(values) ==
    <<IF \A k \in DOMAIN values : ~Truthy(values[k])
      THEN Fail("At least one field must be provided for update") ELSE Nothing,
      IF Given(values, "email") /\ ~validate_email_format(values["email"]).ok
      THEN validate_email_format(values["email"]) ELSE Nothing,
      IF Given(values, "profile_picture_url")
         /\ ~validate_profile_picture_url(values["profile_picture_url"]).ok
      THEN validate_profile_picture_url(values["profile_picture_url"]) ELSE Nothing,
      IF Given(values, "bio") /\ ~validate_bio_length(values["bio"]).ok
      THEN validate_bio_length(values["bio"]) ELSE Nothing,
      IF Given(values, "role") /\ values["role"] \notin RoleNames
      THEN Fail("Invalid role. Must be one of: ANONYMOUS, AUTHENTICATED, MANAGER, ADMIN")
      ELSE Nothing>>

\* The steps that fail on a payload.
FailingSteps(values) ==
    {i \in 1..5 : StepOutcomes(values)[i] # Nothing}

\* C16: the pre-pass fails exactly when one of its steps does, and then
\* construction reports one failure, that of the first failing step in the
\* order at-least-one-field, email, profile_picture_url, bio, role.
C16_FirstFailureWins ==
    op = "UserUpdate"
        => LET failing == FailingSteps(arg) IN
           /\ first.ok <=> failing = {}
           /\ failing # {}
                 => /\ first = StepOutcomes(arg)[CHOOSE i \in failing :
                                                     \A j \in failing : i <= j]
                    /\ res = first

\* C16 witness: a payload whose picture URL and bio both fail was refused
\* with the failure of the picture URL.
C16_Witness ==
    /\ op = "UserUpdate"
    /\ {3, 4} \subseteq FailingSteps(arg)
    /\ res = Fail("Invalid URL format")

----------------------------------------------------------------------------
(* Claims about the termination of role changes.                           *)

\* The role the user started with: every committed change raises the role
\* by one tier and the count of changes by one.
StartRank == Rank(role) - changes

\* The policy allows at most one role from each role, at most three changes
\* are ever committed, at most two from AUTHENTICATED, from where the role
\* is never ANONYMOUS.
BoundedChanges ==
    /\ \A r \in UserRole : Cardinality(role_hierarchy[r]) <= 1
    /\ StartRank \in 0..3
    /\ changes <= 3 - StartRank
    /\ StartRank = Rank("AUTHENTICATED") => (changes <= 2 /\ role # "ANONYMOUS")

\* A step from ADMIN leaves the role ADMIN and a request made then is
\* refused; the policy allows no proposal from ADMIN.
AdminIsFinal ==
    /\ role = "ADMIN" => (role' = "ADMIN" /\ (op' = "update_role" => ~res'.ok))
    /\ (op' = "validate_role_transition" /\ arg'[1] = "ADMIN")
          => res'.val = BoolVal(FALSE)

\* C17: role changes terminate: at most one role is allowed from each
\* role, so at most three changes are ever approved (two from
\* AUTHENTICATED, from where ANONYMOUS is never reached); if promotion
\* requests keep being made the role eventually becomes ADMIN, and once it
\* is ADMIN every later proposal is refused.
C17_RoleChangesTerminate ==
    /\ []BoundedChanges
    /\ [][AdminIsFinal]_vars
    /\ <>(role = "ADMIN")
    /\ <>[](role = "ADMIN")

\* C17 witness: a user who started as ANONYMOUS is ADMIN after three
\* committed changes, and a further request was refused.
C17_Witness ==
    /\ op = "update_role"
    /\ ~res.ok
    /\ role = "ADMIN"
    /\ changes = 3

====
